---------------------------- MODULE Spec2Model ----------------------------
(***************************************************************************)
(* Forward kinematics of an articulated robot (theseus.embodied.robot).    *)
(*                                                                         *)
(* Robot.from_urdf_file builds the kinematic tree from a URDF description  *)
(* (links, joints, fixed-joint folding, id assignment, ancestors and       *)
(* angle_ids); ForwardKinematicsFactory closes over the robot and a list   *)
(* of link names and yields the forward, Jacobian and backward passes.     *)
(*                                                                         *)
(* Poses are 3x4 matrices over the integers.  Angles are counted in        *)
(* quarter turns (prismatic displacements in unit steps), so that every    *)
(* sine and cosine is one of -1, 0, 1 and all pose arithmetic is exact.    *)
(* The batch dimension is a single row: every tensor operation of the      *)
(* source acts on the rows of the batch independently.                     *)
(***************************************************************************)
EXTENDS Integers, Sequences, FiniteSets, TLC

VARIABLES
    urdf,       \* the parsed URDF model: [n, joints], links named 1..n; None before parsing
    pc,         \* position of from_urdf_file / of the caller
    error,      \* the exception raised, "" while none
    link_map,   \* robot._link_map: link name -> Link object (insertion order = name order)
    joint_map,  \* robot._joint_map: joint name -> Joint object (insertion order = name order)
    robot,      \* the scalar and list fields of Robot
    loc,        \* local variables of from_urdf_file
    fk,         \* the closure of ForwardKinematicsFactory
    call,       \* local variables of the kinematics call in progress
    ctx,        \* the autograd context of ForwardKinematics
    evals,      \* local variables and ctx of each of several interleaved evaluations
    heap        \* the poses lists the interleaved evaluations have allocated, by object

vars == <<urdf, pc, error, link_map, joint_map, robot, loc, fk, call, ctx, evals, heap>>

--------------------------------------------------------------------------
(* Bounds of the model *)

\* largest number of links of a URDF model
MaxLinks == 3
\* longest list of requested link names
MaxNames == 2
\* largest joint angle, in quarter turns (unit steps for a prismatic joint)
MaxAngle == 1
\* number of evaluations that run interleaved on one robot
NumEvals == 2
\* the largest number of links of a URDF tree in the check of the construction alone
MaxTreeLinks == 4

None == <<>>

--------------------------------------------------------------------------
(* Sines and cosines of quarter turns *)

CosQ(q) == CASE q % 4 = 0 -> 1 [] q % 4 = 1 -> 0 [] q % 4 = 2 -> -1 [] OTHER -> 0
SinQ(q) == CASE q % 4 = 0 -> 0 [] q % 4 = 1 -> 1 [] q % 4 = 2 -> 0 [] OTHER -> -1

--------------------------------------------------------------------------
(* Rigid-transform algebra on 3x4 matrices (rotation block, translation)   *)

Identity34 == <<<<1, 0, 0, 0>>, <<0, 1, 0, 0>>, <<0, 0, 1, 0>>>>

\* Each matrix operation binds its arguments once (a \in {g}) before it
\* reads their entries.

\* se3.compose(g0, g1)
Compose(g0, g1) ==
    CHOOSE g \in
        {[i \in 1..3 |->
            [k \in 1..4 |->
                a[i][1] * b[1][k] + a[i][2] * b[2][k] + a[i][3] * b[3][k]
                + (IF k = 4 THEN a[i][4] ELSE 0)]] : a \in {g0}, b \in {g1}} : TRUE

\* se3.inverse(g): transposed rotation, negated rotated translation
Inverse(g) ==
    CHOOSE h \in
        {[i \in 1..3 |->
            [k \in 1..4 |->
                IF k <= 3 THEN a[k][i]
                ELSE 0 - (a[1][i] * a[1][4] + a[2][i] * a[2][4] + a[3][i] * a[3][4])]]
            : a \in {g}} : TRUE

\* so3.hat(v): the skew-symmetric matrix of a 3-vector
Hat(v) ==
    CHOOSE h \in
        {<<<<0, 0 - a[3], a[2]>>, <<a[3], 0, 0 - a[1]>>, <<0 - a[2], a[1], 0>>>>
            : a \in {v}} : TRUE

Mul33(m, n) ==
    CHOOSE r \in
        {[i \in 1..3 |->
            [k \in 1..3 |-> a[i][1] * b[1][k] + a[i][2] * b[2][k] + a[i][3] * b[3][k]]]
            : a \in {m}, b \in {n}} : TRUE

Rot(g) == [i \in 1..3 |-> [k \in 1..3 |-> g[i][k]]]
Trans(g) == [i \in 1..3 |-> g[i][4]]

\* so3.exp(angle * axis) for a unit axis and an angle of q quarter turns (Rodrigues)
SO3Exp(q, axis) ==
    LET K == Hat(axis)
        K2 == Mul33(K, K)
    IN [i \in 1..3 |->
          [k \in 1..3 |->
              (IF i = k THEN 1 ELSE 0) + SinQ(q) * K[i][k] + (1 - CosQ(q)) * K2[i][k]]]

\* se3.adjoint(g): the 6x6 matrix [[R, hat(t) R], [0, R]]
Adjoint(g) ==
    CHOOSE ad \in
        {[i \in 1..6 |->
            [k \in 1..6 |->
                CASE i <= 3 /\ k <= 3 -> R[i][k]
                  [] i <= 3 /\ k > 3 -> TR[i][k - 3]
                  [] i > 3 /\ k <= 3 -> 0
                  [] OTHER -> R[i - 3][k - 3]]]
            : R \in {Rot(g)}, TR \in {Mul33(Hat(Trans(g)), Rot(g))}} : TRUE

\* a 6x6 matrix applied to a 6-vector
Mul66v(m, v) ==
    CHOOSE r \in
        {[i \in 1..6 |->
            a[i][1] * b[1] + a[i][2] * b[2] + a[i][3] * b[3]
            + a[i][4] * b[4] + a[i][5] * b[5] + a[i][6] * b[6]]
            : a \in {m}, b \in {v}} : TRUE

Dot6(a, b) == a[1] * b[1] + a[2] * b[2] + a[3] * b[3] + a[4] * b[4] + a[5] * b[5] + a[6] * b[6]

Zero6 == <<0, 0, 0, 0, 0, 0>>

\* se3.project(m): the tangent coordinates of a 3x4 ambient gradient
Project(m) ==
    <<m[1][4], m[2][4], m[3][4],
      m[3][2] - m[2][3], m[1][3] - m[3][1], m[2][1] - m[1][2]>>

--------------------------------------------------------------------------
(* The URDF input *)

JointTypes == {"revolute", "continuous", "prismatic", "fixed", "floating"}

\* the origin and the axis a URDF joint declares, by its position in the file
UrdfXyz(j) == CASE j % 3 = 1 -> <<1, 0, 0>> [] j % 3 = 2 -> <<0, 1, 0>> [] OTHER -> <<0, 0, 1>>
UrdfRpy(j) == CASE j % 3 = 1 -> <<0, 0, 1>> [] j % 3 = 2 -> <<1, 0, 0>> [] OTHER -> <<0, 1, 0>>
UrdfAxis(j) == CASE j % 3 = 1 -> <<0, 1, 0>> [] j % 3 = 2 -> <<0, 0, 1>> [] OTHER -> <<1, 0, 0>>

\* the link a joint list hangs link l from, 0 when l is no joint's child
UrdfParent(js, l) ==
    IF \E j \in DOMAIN js : js[j].child = l
    THEN js[CHOOSE j \in DOMAIN js : js[j].child = l].parent
    ELSE 0

\* the parent link of every link of a joint list
UrdfParents(n, js) == [l \in 1..n |-> UrdfParent(js, l)]

RECURSIVE ReachesRoot(_, _, _)
ReachesRoot(P, l, fuel) ==
    IF l = 0 THEN TRUE
    ELSE IF fuel = 0 THEN FALSE
    ELSE ReachesRoot(P, P[l], fuel - 1)

\* n links and n - 1 joints form a tree: no link has two parent joints, no cycle
IsTree(n, js) ==
    /\ \A j1, j2 \in DOMAIN js : js[j1].child = js[j2].child => j1 = j2
    /\ LET P == UrdfParents(n, js) IN \A l \in 1..n : ReachesRoot(P, l, n)

Shapes(n) ==
    {s \in [1..(n - 1) -> [parent : 1..n, child : 1..n]] : IsTree(n, s)}

\* the URDF model of a shape s with joint types t
UrdfModel(n, s, t) ==
    [n |-> n,
     joints |-> [j \in 1..(n - 1) |->
                    [parent |-> s[j].parent, child |-> s[j].child, type |-> t[j]]]]

\* urdf_model.get_root(): the link that is no joint's child
GetRoot(u) == CHOOSE l \in 1..u.n : UrdfParent(u.joints, l) = 0

--------------------------------------------------------------------------
(* Robot.from_urdf_file *)

\* a get_joint_type that takes every unknown type for a fixed joint
GetJointTypeLenient(type) ==
    IF type = "revolute" \/ type = "continuous" THEN "RevoluteJoint"
    ELSE IF type = "prismatic" THEN "PrismaticJoint"
    ELSE "FixedJoint"

\* get_joint_type: the joint class of a URDF joint type, "ValueError" when unsupported
GetJointType(type) ==
    IF type = "revolute" \/ type = "continuous" THEN "RevoluteJoint"
    ELSE IF type = "prismatic" THEN "PrismaticJoint"
    ELSE IF type = "fixed" THEN "FixedJoint"
    ELSE "ValueError"

\* get_origin: the 3x4 transform of a URDF origin (xyz, rpy)
GetOrigin(xyz, rpy) ==
    LET c3 == CosQ(rpy[1])  c2 == CosQ(rpy[2])  c1 == CosQ(rpy[3])
        s3 == SinQ(rpy[1])  s2 == SinQ(rpy[2])  s1 == SinQ(rpy[3])
    IN <<<<c1 * c2, (c1 * s2 * s3) - (c3 * s1), (s1 * s3) + (c1 * c3 * s2), xyz[1]>>,
         <<c2 * s1, (c1 * c3) + (s1 * s2 * s3), (c3 * s1 * s2) - (c1 * s3), xyz[2]>>,
         <<0 - s2, c2 * s3, c2 * c3, xyz[3]>>>>

\* Link(name): no id, no parent joint, no children
NewLink == [id |-> -1, parent |-> 0, children |-> <<>>, ancestors |-> <<>>, angle_ids |-> <<>>]

\* the 6-vector axis a joint constructor sets: self._axis[3:] = revolute_axis,
\* self._axis[:3] = prismatic_axis, and self._axis[3], [4] or [5] = 1 in the
\* principal-axis classes (slot k of the source is entry k + 1 here)
JointAxis(kind, axis) ==
    CASE kind = "RevoluteJoint" -> <<0, 0, 0, axis[1], axis[2], axis[3]>>
      [] kind = "PrismaticJoint" -> <<axis[1], axis[2], axis[3], 0, 0, 0>>
      [] kind \in {"RevoluteJointX", "PrismaticJointX"} -> <<0, 0, 0, 1, 0, 0>>
      [] kind \in {"RevoluteJointY", "PrismaticJointY"} -> <<0, 0, 0, 0, 1, 0>>
      [] kind \in {"RevoluteJointZ", "PrismaticJointZ"} -> <<0, 0, 0, 0, 0, 1>>
      [] OTHER -> Zero6

\* joint_type(name, axis, parent=parent, child=child, origin=origin)
NewJoint(kind, axis, parent, child, origin) ==
    [id |-> -1, kind |-> kind, parent |-> parent, child |-> child,
     origin |-> origin, axis |-> JointAxis(kind, axis)]

\* joint.dof of a joint that is not fixed
JointDof == 1

IsFixed(jm, j) == jm[j].kind = "FixedJoint"

EmptyRobot == [dof |-> 0, num_joints |-> 0, num_links |-> 0, joints |-> <<>>, links |-> <<>>]
NoLoc == [i |-> 0, joints_to_visit |-> <<>>, num_joints |-> 0]
NoFk == [made |-> FALSE, has_names |-> FALSE, names |-> None, link_ids |-> <<>>, pose_ids |-> <<>>]
NoCall == [kind |-> "idle"]
NoCtx == [saved |-> FALSE, poses |-> None, rets |-> None, has_jposes |-> FALSE, jposes |-> None]
Evals == 1..NumEvals

Init ==
    /\ urdf = None
    /\ pc = "parse"
    /\ error = ""
    /\ link_map = <<>>
    /\ joint_map = <<>>
    /\ robot = EmptyRobot
    /\ loc = NoLoc
    /\ fk = NoFk
    /\ call = NoCall
    /\ ctx = NoCtx
    /\ evals = [e \in Evals |-> [kind |-> "idle", pc |-> "idle"]]
    /\ heap = [o \in Evals |-> None]

\* urdf_model = urdf.URDF.from_xml_file(urdf_file); robot = Robot(urdf_model.name)
ParseUrdf ==
    /\ pc = "parse"
    /\ \E n \in 1..MaxLinks : \E s \in Shapes(n) : \E t \in [1..(n - 1) -> JointTypes] :
          urdf' = UrdfModel(n, s, t)
    /\ pc' = "links"
    /\ UNCHANGED <<evals, heap, error, link_map, joint_map, robot, loc, fk, call, ctx>>

\* for urdf_link in urdf_model.links: robot._link_map[name] = Link(name)
AddLinks ==
    /\ pc = "links"
    /\ link_map' = [l \in 1..urdf.n |-> NewLink]
    /\ loc' = [loc EXCEPT !.i = 1]
    /\ pc' = "joints"
    /\ UNCHANGED <<evals, heap, urdf, error, joint_map, robot, fk, call, ctx>>

\* one iteration of: for urdf_joint in urdf_model.joints
AddJoint ==
    /\ pc = "joints"
    /\ loc.i <= Len(urdf.joints)
    /\ LET j == loc.i
           uj == urdf.joints[j]
           origin == GetOrigin(UrdfXyz(j), UrdfRpy(j))
           kind == GetJointType(uj.type)
       IN IF kind = "ValueError"
          THEN /\ error' = "ValueError"
               /\ pc' = "failed"
               /\ UNCHANGED <<link_map, joint_map, loc>>
          ELSE /\ joint_map' = Append(joint_map,
                                  NewJoint(kind, UrdfAxis(j), uj.parent, uj.child, origin))
               /\ link_map' =
                    LET lm1 == [link_map EXCEPT ![uj.child].parent = j]
                    IN [lm1 EXCEPT ![uj.parent].children = Append(@, j)]
               /\ loc' = [loc EXCEPT !.i = @ + 1]
               /\ UNCHANGED <<error, pc>>
    /\ UNCHANGED <<evals, heap, urdf, robot, fk, call, ctx>>

\* the joint loop is exhausted: the folding pass begins
JointsDone ==
    /\ pc = "joints"
    /\ loc.i > Len(urdf.joints)
    /\ pc' = "fold"
    /\ loc' = [loc EXCEPT !.i = 1]
    /\ UNCHANGED <<evals, heap, urdf, error, link_map, joint_map, robot, fk, call, ctx>>

\* a folding that re-parents the subjoint and leaves its origin as declared
FoldedOriginUncomposed(joint, subjoint) == subjoint.origin

\* se3.compose(joint.origin, subjoint.origin)
FoldedOrigin(joint, subjoint) == Compose(joint.origin, subjoint.origin)

\* a folding that appends the subjoints to link.children without subjoint.set_parent
RECURSIVE MoveSubjointsKeepingParent(_, _, _, _, _)
MoveSubjointsKeepingParent(lm, jm, link, joint, subjoints) ==
    IF subjoints = <<>> THEN [lm |-> lm, jm |-> jm]
    ELSE LET s == Head(subjoints)
             jm1 == [jm EXCEPT ![s].origin = FoldedOrigin(jm[joint], jm[s])]
             lm1 == [lm EXCEPT ![link].children = Append(@, s)]
         IN MoveSubjointsKeepingParent(lm1, jm1, link, joint, Tail(subjoints))

\* for subjoint in subjoints: re-parent to link, pre-compose the origin, append
RECURSIVE MoveSubjoints(_, _, _, _, _)
MoveSubjoints(lm, jm, link, joint, subjoints) ==
    IF subjoints = <<>> THEN [lm |-> lm, jm |-> jm]
    ELSE LET s == Head(subjoints)
             jm1 == [jm EXCEPT ![s].parent = link,
                               ![s].origin = FoldedOrigin(jm[joint], jm[s])]
             lm1 == [lm EXCEPT ![link].children = Append(@, s)]
         IN MoveSubjoints(lm1, jm1, link, joint, Tail(subjoints))

\* for joint in link._children, from index k.  The loop iterates a list object that
\* grows while link.children.append extends it.  own: the object is still the
\* link's list; when a fixed joint leads back to the link itself, set_children([])
\* gives the link a new list and the loop keeps iterating the old one, it.
RECURSIVE FoldChildren(_, _, _, _, _, _)
FoldChildren(lm, jm, link, own, it, k) ==
    LET list == IF own THEN lm[link].children ELSE it
    IN IF k > Len(list) THEN [lm |-> lm, jm |-> jm]
       ELSE LET joint == list[k]
            IN IF IsFixed(jm, joint)
               THEN LET c == jm[joint].child
                        subjoints == lm[c].children
                        lm1 == [lm EXCEPT ![c].children = <<>>]
                        r == MoveSubjoints(lm1, jm, link, joint, subjoints)
                    IN FoldChildren(r.lm, r.jm, link, own /\ c # link,
                                    IF own /\ c = link THEN list ELSE it, k + 1)
               ELSE FoldChildren(lm, jm, link, own, it, k + 1)

\* one iteration of: for _, link in robot.link_map.items()
FoldLink ==
    /\ pc = "fold"
    /\ loc.i <= urdf.n
    /\ LET r == FoldChildren(link_map, joint_map, loc.i, TRUE, <<>>, 1)
       IN /\ link_map' = r.lm
          /\ joint_map' = r.jm
    /\ loc' = [loc EXCEPT !.i = @ + 1]
    /\ UNCHANGED <<evals, heap, urdf, pc, error, robot, fk, call, ctx>>

\* root = robot.link_map[urdf_model.get_root()], where get_root asserts that exactly
\* one link is no joint's child; root.set_id(0); robot._links.append(root);
\* joints_to_visit = root.children
StartTraversal ==
    /\ pc = "fold"
    /\ loc.i > urdf.n
    /\ IF Cardinality({l \in 1..urdf.n : UrdfParent(urdf.joints, l) = 0}) # 1
       THEN /\ error' = "AssertionError"
            /\ pc' = "failed"
            /\ UNCHANGED <<link_map, robot, loc>>
       ELSE LET root == GetRoot(urdf)
            IN /\ link_map' = [link_map EXCEPT ![root].id = 0]
               /\ robot' = [robot EXCEPT !.links = Append(@, root), !.dof = 0]
               /\ loc' = [loc EXCEPT !.num_joints = 0,
                                     !.joints_to_visit = link_map[root].children]
               /\ pc' = "traverse"
               /\ UNCHANGED error
    /\ UNCHANGED <<evals, heap, urdf, joint_map, fk, call, ctx>>

\* a traversal that numbers fixed joints like the others
NumberedAlways(joint) == TRUE

\* if not isinstance(joint, FixedJoint)
Numbered(joint) == ~IsFixed(joint_map, joint)

\* a child link that takes the id of its joint
ChildIdOfJoint(num) == num

\* a child link whose id runs one ahead of the joint count
ChildIdAhead(num) == num + 2

\* num_joints = num_joints + 1; joint.child.set_id(num_joints)
ChildId(num) == num + 1

\* one iteration of: while joints_to_visit
VisitJoint ==
    /\ pc = "traverse"
    /\ loc.joints_to_visit # <<>>
    \* a tree has fewer joints than links; on a cycle the loop of the source never ends
    /\ loc.num_joints <= MaxLinks
    /\ LET joint == Head(loc.joints_to_visit)
           rest == Tail(loc.joints_to_visit)
           child == joint_map[joint].child
           num == loc.num_joints
       IN IF Numbered(joint)
          THEN /\ joint_map' = [joint_map EXCEPT ![joint].id = num]
               /\ link_map' = [link_map EXCEPT ![child].id = ChildId(num)]
               /\ robot' = [robot EXCEPT !.dof = @ + JointDof,
                                         !.joints = Append(@, joint),
                                         !.links = Append(@, child)]
               /\ loc' = [loc EXCEPT !.num_joints = num + 1,
                                     !.joints_to_visit = rest \o link_map[child].children]
          ELSE /\ loc' = [loc EXCEPT !.joints_to_visit = rest]
               /\ UNCHANGED <<joint_map, link_map, robot>>
    /\ UNCHANGED <<evals, heap, urdf, pc, error, fk, call, ctx>>

\* the queue is empty: the pass over joint_map begins
TraversalDone ==
    /\ pc = "traverse"
    /\ loc.joints_to_visit = <<>>
    /\ pc' = "number"
    /\ loc' = [loc EXCEPT !.i = 1]
    /\ UNCHANGED <<evals, heap, urdf, error, link_map, joint_map, robot, fk, call, ctx>>

\* one iteration of: for _, joint in robot.joint_map.items()
NumberJoint ==
    /\ pc = "number"
    /\ loc.i <= Len(joint_map)
    /\ LET joint == loc.i
           num == loc.num_joints
       IN IF joint_map[joint].id >= 0
          THEN /\ loc' = [loc EXCEPT !.i = @ + 1]
               /\ UNCHANGED <<joint_map, link_map, robot, error, pc>>
          ELSE IF ~IsFixed(joint_map, joint)
          THEN /\ error' = "ValueError"
               /\ pc' = "failed"
               /\ UNCHANGED <<joint_map, link_map, robot, loc>>
          ELSE /\ joint_map' = [joint_map EXCEPT ![joint].id = num]
               /\ link_map' = [link_map EXCEPT ![joint_map[joint].child].id = ChildId(num)]
               /\ robot' = [robot EXCEPT !.joints = Append(@, joint),
                                         !.links = Append(@, joint_map[joint].child)]
               /\ loc' = [loc EXCEPT !.i = @ + 1, !.num_joints = num + 1]
               /\ UNCHANGED <<error, pc>>
    /\ UNCHANGED <<evals, heap, urdf, fk, call, ctx>>

\* robot._num_links = len(robot.links); robot._num_joints = len(robot.joints)
CountLinks ==
    /\ pc = "number"
    /\ loc.i > Len(joint_map)
    /\ robot' = [robot EXCEPT !.num_links = Len(robot.links),
                              !.num_joints = Len(robot.joints)]
    /\ loc' = [loc EXCEPT !.i = 1]
    /\ pc' = "ancestors"
    /\ UNCHANGED <<evals, heap, urdf, error, link_map, joint_map, fk, call, ctx>>

\* angle_ids that take the id of a fixed joint too
NewAngleIdsAlways(joint, prev) == Append(link_map[prev].angle_ids, joint_map[joint].id)

\* angle_ids of a link below joint, whose parent link is prev
NewAngleIds(joint, prev) ==
    IF IsFixed(joint_map, joint)
    THEN link_map[prev].angle_ids
    ELSE Append(link_map[prev].angle_ids, joint_map[joint].id)

\* one iteration of: for link in robot.links
SetAncestors ==
    /\ pc = "ancestors"
    /\ loc.i <= Len(robot.links)
    /\ LET link == robot.links[loc.i]
           joint == link_map[link].parent
       IN IF joint # 0
          THEN LET prev == joint_map[joint].parent
               IN link_map' =
                    [link_map EXCEPT
                        ![link].ancestors = Append(link_map[prev].ancestors, prev),
                        ![link].angle_ids = NewAngleIds(joint, prev)]
          ELSE UNCHANGED link_map
    /\ loc' = [loc EXCEPT !.i = @ + 1]
    /\ UNCHANGED <<evals, heap, urdf, pc, error, joint_map, robot, fk, call, ctx>>

\* return robot
ReturnRobot ==
    /\ pc = "ancestors"
    /\ loc.i > Len(robot.links)
    /\ pc' = "built"
    /\ loc' = NoLoc
    /\ UNCHANGED <<evals, heap, urdf, error, link_map, joint_map, robot, fk, call, ctx>>

\* urdf_model = urdf.URDF.from_xml_file(urdf_file), of a file whose joints connect
\* the links in any way: trees, forests, links with two parent joints, cycles
ParseAnyUrdf ==
    /\ pc = "parse"
    /\ \E n \in 1..MaxLinks : \E m \in 0..n :
          \E s \in [1..m -> [parent : 1..n, child : 1..n]] :
             \E t \in [1..m -> {"revolute", "fixed"}] :
                urdf' = [n |-> n,
                         joints |-> [j \in 1..m |->
                                       [parent |-> s[j].parent, child |-> s[j].child,
                                        type |-> t[j]]]]
    /\ pc' = "links"
    /\ UNCHANGED <<evals, heap, error, link_map, joint_map, robot, loc, fk, call, ctx>>

Build ==
    \/ ParseUrdf
    \/ AddLinks
    \/ AddJoint
    \/ JointsDone
    \/ FoldLink
    \/ StartTraversal
    \/ VisitJoint
    \/ TraversalDone
    \/ NumberJoint
    \/ CountLinks
    \/ SetAncestors
    \/ ReturnRobot

SpecBuild == Init /\ [][Build]_vars

\* from_urdf_file on any URDF graph
BuildAny ==
    \/ ParseAnyUrdf
    \/ AddLinks
    \/ AddJoint
    \/ JointsDone
    \/ FoldLink
    \/ StartTraversal
    \/ VisitJoint
    \/ TraversalDone
    \/ NumberJoint
    \/ CountLinks
    \/ SetAncestors
    \/ ReturnRobot

SpecAny == Init /\ [][BuildAny]_vars

\* urdf_model = urdf.URDF.from_xml_file(urdf_file), of a tree of up to MaxTreeLinks
\* links with revolute and fixed joints
ParseTreeUrdf ==
    /\ pc = "parse"
    /\ \E n \in 1..MaxTreeLinks : \E s \in Shapes(n) :
          \E t \in [1..(n - 1) -> {"revolute", "fixed"}] :
             urdf' = UrdfModel(n, s, t)
    /\ pc' = "links"
    /\ UNCHANGED <<evals, heap, error, link_map, joint_map, robot, loc, fk, call, ctx>>

\* from_urdf_file on the larger trees
BuildTree ==
    \/ ParseTreeUrdf
    \/ AddLinks
    \/ AddJoint
    \/ JointsDone
    \/ FoldLink
    \/ StartTraversal
    \/ VisitJoint
    \/ TraversalDone
    \/ NumberJoint
    \/ CountLinks
    \/ SetAncestors
    \/ ReturnRobot

SpecTree == Init /\ [][BuildTree]_vars

--------------------------------------------------------------------------
(* Joint.relative_pose *)

\* a rotation about Y in every principal-axis class
RotationImplAboutY(joint, q) ==
    IF joint.kind = "RevoluteJoint"
    THEN SO3Exp(q, <<joint.axis[4], joint.axis[5], joint.axis[6]>>)
    ELSE <<<<CosQ(q), 0, SinQ(q)>>, <<0, 1, 0>>, <<0 - SinQ(q), 0, CosQ(q)>>>>

\* _rotation_impl of the revolute classes, for an angle of q quarter turns
RotationImpl(joint, q) ==
    CASE joint.kind = "RevoluteJoint" ->
              SO3Exp(q, <<joint.axis[4], joint.axis[5], joint.axis[6]>>)
      [] joint.kind = "RevoluteJointX" ->
              <<<<1, 0, 0>>, <<0, CosQ(q), 0 - SinQ(q)>>, <<0, SinQ(q), CosQ(q)>>>>
      [] joint.kind = "RevoluteJointY" ->
              <<<<CosQ(q), 0, SinQ(q)>>, <<0, 1, 0>>, <<0 - SinQ(q), 0, CosQ(q)>>>>
      [] joint.kind = "RevoluteJointZ" ->
              <<<<CosQ(q), 0 - SinQ(q), 0>>, <<SinQ(q), CosQ(q), 0>>, <<0, 0, 1>>>>

\* a principal-axis prismatic joint that adds the angle times a row of the rotation
PrincipalColumnAsRow(o, i, c) == o[c][i]

\* self.origin[:, :, c]: entry i of column c of the origin (c = 1, 2, 3 for X, Y, Z)
PrincipalColumn(o, i, c) == o[i][c]

\* the pose of the child link relative to the parent link; a fixed joint ignores the angle
RelativePose(joint, angle) ==
    LET o == joint.origin
        R == Rot(o)
    IN CASE joint.kind \in {"RevoluteJoint", "RevoluteJointX", "RevoluteJointY",
                            "RevoluteJointZ"} ->
              LET rot == RotationImpl(joint, angle)
                  Rr == Mul33(R, rot)
              IN [i \in 1..3 |-> [k \in 1..4 |-> IF k <= 3 THEN Rr[i][k] ELSE o[i][4]]]
         [] joint.kind = "PrismaticJoint" ->
              LET trans == [k \in 1..3 |-> angle * joint.axis[k]]
              IN [i \in 1..3 |->
                    [k \in 1..4 |->
                        IF k <= 3 THEN R[i][k]
                        ELSE R[i][1] * trans[1] + R[i][2] * trans[2] + R[i][3] * trans[3]
                             + o[i][4]]]
         [] joint.kind \in {"PrismaticJointX", "PrismaticJointY", "PrismaticJointZ"} ->
              LET c == CASE joint.kind = "PrismaticJointX" -> 1
                         [] joint.kind = "PrismaticJointY" -> 2
                         [] OTHER -> 3
              IN [i \in 1..3 |->
                    [k \in 1..4 |->
                        IF k <= 3 THEN o[i][k]
                        ELSE angle * PrincipalColumn(o, i, c) + o[i][4]]]
         [] OTHER -> o

--------------------------------------------------------------------------
(* ForwardKinematicsFactory *)

\* the lists of link names a caller may request; name n + 1 is no link of the robot
RECURSIVE NameLists(_, _)
NameLists(names, len) ==
    IF len = 0 THEN {<<>>}
    ELSE LET shorter == NameLists(names, len - 1)
         IN shorter \cup {Append(l, x) : l \in {s \in shorter : Len(s) = len - 1}, x \in names}

\* sorted(list(set(ids)))
RECURSIVE Sorted(_)
Sorted(S) ==
    IF S = {} THEN <<>>
    ELSE LET m == CHOOSE x \in S : \A y \in S : x <= y
         IN <<m>> \o Sorted(S \ {m})

Range(seq) == {seq[i] : i \in DOMAIN seq}

\* links = robot.links, or [robot.link_map[name] for name in link_names]
RequestedLinks(has_names, names) == IF has_names THEN names ELSE robot.links

\* link_ids = [link.id for link in links]
LinkIds(links) == [i \in 1..Len(links) |-> link_map[links[i]].id]

\* pose ids of every link of the robot, requested or not
PoseIdSetAll(links) == 0..(robot.num_links - 1)

\* set([anc.id for anc in ancestors] + link_ids)
PoseIdSet(links) ==
    UNION {{link_map[a].id : a \in Range(link_map[links[i]].ancestors)}
             : i \in 1..Len(links)}
    \cup Range(LinkIds(links))

Reverse(seq) == [i \in 1..Len(seq) |-> seq[Len(seq) + 1 - i]]

\* pose ids listed from the largest to the smallest
PoseIdsDescending(links) == Reverse(Sorted(PoseIdSet(links)))

\* pose_ids = sorted(list(set([anc.id for anc in ancestors] + link_ids)))
PoseIds(links) == Sorted(PoseIdSet(links))

\* the closure over the requested links
Closure(has_names, names, links) ==
    [made |-> TRUE, has_names |-> has_names, names |-> names,
     link_ids |-> LinkIds(links), pose_ids |-> PoseIds(links)]

\* the requests a caller may make: no names, or a list of names
Requests ==
    {[has_names |-> FALSE, names |-> None]}
    \cup {[has_names |-> TRUE, names |-> l] : l \in NameLists(1..(urdf.n + 1), MaxNames)}

\* a factory that skips the names that are no link of the robot
FactorySkipping ==
    /\ pc = "built"
    /\ ~fk.made
    /\ error = ""
    /\ \E r \in Requests :
          fk' = Closure(r.has_names, r.names,
                        IF r.has_names
                        THEN SelectSeq(r.names, LAMBDA x : x \in DOMAIN link_map)
                        ELSE robot.links)
    /\ UNCHANGED <<evals, heap, urdf, pc, error, link_map, joint_map, robot, loc, call, ctx>>

Factory ==
    /\ pc = "built"
    /\ ~fk.made
    /\ error = ""
    /\ \E r \in Requests :
          IF r.has_names /\ \E i \in 1..Len(r.names) : r.names[i] \notin DOMAIN link_map
          THEN /\ error' = "KeyError"
               /\ fk' = [fk EXCEPT !.has_names = r.has_names, !.names = r.names]
          ELSE /\ fk' = Closure(r.has_names, r.names, RequestedLinks(r.has_names, r.names))
               /\ UNCHANGED error
    /\ UNCHANGED <<evals, heap, urdf, pc, link_map, joint_map, robot, loc, call, ctx>>

--------------------------------------------------------------------------
(* _forward_kinematics_helper *)

\* the joint-angle batches a caller may pass: well-shaped ones, and malformed ones
AngleBatches ==
    {[ndim |-> 2, cols |-> robot.dof, vals |-> v] : v \in [1..robot.dof -> 0..MaxAngle]}
    \cup {[ndim |-> 1, cols |-> robot.dof, vals |-> [c \in 1..robot.dof |-> 0]],
          [ndim |-> 2, cols |-> robot.dof + 1, vals |-> [c \in 1..(robot.dof + 1) |-> 0]],
          [ndim |-> 3, cols |-> robot.dof, vals |-> [c \in 1..robot.dof |-> 0]]}

\* a validation of the column count alone
BadAnglesColumnsOnly(angles) == angles.cols # robot.dof

\* angles.ndim != 2 or angles.shape[1] != robot.dof
BadAngles(angles) == angles.ndim # 2 \/ angles.cols # robot.dof

\* poses = [None] * robot.num_links; poses[0] = identity
InitialPoses == [id \in 0..(robot.num_links - 1) |-> IF id = 0 THEN Identity34 ELSE None]

\* the first statements of _forward_kinematics_helper, for the three callers of it
StartHelper(kind, angles) ==
    IF BadAngles(angles)
    THEN /\ call' = [kind |-> kind, pc |-> "raised", angles |-> angles, poses |-> None,
                     i |-> 0, jposes |-> None, jacs |-> <<>>, rets |-> None,
                     grads |-> <<>>, grad_input |-> None]
         /\ error' = "ValueError"
    ELSE /\ call' = [kind |-> kind, pc |-> "loop", angles |-> angles,
                     poses |-> InitialPoses,
                     i |-> 2, jposes |-> None, jacs |-> <<>>, rets |-> None,
                     grads |-> <<>>, grad_input |-> None]
         /\ UNCHANGED error

CanCall == pc = "built" /\ fk.made /\ call.kind = "idle" /\ error = ""

\* _forward_kinematics_impl(angles)
CallImpl ==
    /\ CanCall
    /\ ~ctx.saved
    /\ \E angles \in AngleBatches : StartHelper("impl", angles)
    /\ UNCHANGED <<evals, heap, urdf, pc, link_map, joint_map, robot, loc, fk, ctx>>

\* _jforward_kinematics_impl(angles)
CallJImpl ==
    /\ CanCall
    /\ ~ctx.saved
    /\ \E angles \in AngleBatches : StartHelper("jimpl", angles)
    /\ UNCHANGED <<evals, heap, urdf, pc, link_map, joint_map, robot, loc, fk, ctx>>

\* ForwardKinematics.apply(angles): ForwardKinematics.forward(ctx, angles) on a new ctx
CallForward ==
    /\ CanCall
    /\ ~ctx.saved
    /\ \E angles \in AngleBatches : StartHelper("forward", angles)
    /\ UNCHANGED ctx
    /\ UNCHANGED <<evals, heap, urdf, pc, link_map, joint_map, robot, loc, fk>>

\* the pose the loop body writes for the link with this id, None when the parent's is None
NextPose(poses, angles, id) ==
    LET curr == robot.links[id + 1]
        joint == joint_map[link_map[curr].parent]
        prev == joint.parent
        relative_pose == IF joint.id < robot.dof
                         THEN RelativePose(joint, angles.vals[joint.id + 1])
                         ELSE RelativePose(joint, 0)
    IN IF poses[link_map[prev].id] = None THEN None
       ELSE Compose(poses[link_map[prev].id], relative_pose)

\* one iteration of: for id in pose_ids[1:]
HelperStep ==
    /\ call.kind \in {"impl", "jimpl", "forward"}
    /\ call.pc = "loop"
    /\ call.i <= Len(fk.pose_ids)
    /\ LET id == fk.pose_ids[call.i]
           curr == robot.links[id + 1]
       IN IF link_map[curr].parent = 0
          THEN /\ call' = [call EXCEPT !.pc = "raised"]
               /\ error' = "AttributeError"
          ELSE LET pose == NextPose(call.poses, call.angles, id)
               IN IF pose = None
                  THEN /\ call' = [call EXCEPT !.pc = "raised"]
                       /\ error' = "TypeError"
                  ELSE /\ call' = [call EXCEPT !.poses[link_map[curr].id] = pose,
                                               !.i = @ + 1]
                       /\ UNCHANGED error
    /\ UNCHANGED <<evals, heap, urdf, pc, link_map, joint_map, robot, loc, fk, ctx>>

\* the poses of the visited links, in the order of pose_ids
RetsByPoseIds(poses) == [m \in 1..Len(fk.pose_ids) |-> poses[fk.pose_ids[m]]]

\* tuple(poses[id] for id in link_ids)
Rets(poses) == [m \in 1..Len(fk.link_ids) |-> poses[fk.link_ids[m]]]

\* return poses, to _forward_kinematics_impl: return tuple(poses[id] for id in link_ids)
ReturnImpl ==
    /\ call.kind = "impl"
    /\ call.pc = "loop"
    /\ call.i > Len(fk.pose_ids)
    /\ call' = [call EXCEPT !.pc = "returned", !.rets = Rets(call.poses)]
    /\ UNCHANGED <<evals, heap, urdf, pc, error, link_map, joint_map, robot, loc, fk, ctx>>

\* return poses, to ForwardKinematics.forward: ctx.poses = poses; ctx.rets = rets
ReturnForward ==
    /\ call.kind = "forward"
    /\ call.pc = "loop"
    /\ call.i > Len(fk.pose_ids)
    /\ call' = [call EXCEPT !.pc = "returned", !.rets = Rets(call.poses)]
    /\ ctx' = [saved |-> TRUE, poses |-> call.poses, rets |-> Rets(call.poses),
               has_jposes |-> FALSE, jposes |-> None]
    /\ UNCHANGED <<evals, heap, urdf, pc, error, link_map, joint_map, robot, loc, fk>>

--------------------------------------------------------------------------
(* _jforward_kinematics_helper *)

\* poses[0].new_zeros(poses[0].shape[0], 6, robot.dof): one 6-vector for each column
ZeroColumns == [c \in 0..(robot.dof - 1) |-> Zero6]

\* return poses, to _jforward_kinematics_impl: jposes = _jforward_kinematics_helper(poses)
StartJHelper ==
    /\ call.kind = "jimpl"
    /\ call.pc = "loop"
    /\ call.i > Len(fk.pose_ids)
    /\ call' = [call EXCEPT !.pc = "jloop", !.jposes = ZeroColumns, !.i = 2]
    /\ UNCHANGED <<evals, heap, urdf, pc, error, link_map, joint_map, robot, loc, fk, ctx>>

\* se3.adjoint(poses[link.id]) @ joint.axis
JointColumn(poses, link) ==
    Mul66v(Adjoint(poses[link_map[link].id]), joint_map[link_map[link].parent].axis)

\* an iteration whose break comes one joint id early: joint.id >= robot.dof - 1
JHelperStepBreakingEarly ==
    /\ call.kind \in {"jimpl", "backward"}
    /\ call.pc = "jloop"
    /\ call.i <= Len(fk.pose_ids)
    /\ LET id == fk.pose_ids[call.i]
           link == robot.links[id + 1]
           joint == joint_map[link_map[link].parent]
       IN IF joint.id >= robot.dof - 1
          THEN call' = [call EXCEPT !.pc = "jdone"]
          ELSE call' = [call EXCEPT !.jposes[joint.id] = JointColumn(call.poses, link),
                                    !.i = @ + 1]
    /\ UNCHANGED <<evals, heap, urdf, pc, error, link_map, joint_map, robot, loc, fk, ctx>>

\* one iteration of: for id in pose_ids[1:], with its break
JHelperStep ==
    /\ call.kind \in {"jimpl", "backward"}
    /\ call.pc = "jloop"
    /\ call.i <= Len(fk.pose_ids)
    /\ LET id == fk.pose_ids[call.i]
           link == robot.links[id + 1]
           joint == joint_map[link_map[link].parent]
       IN IF joint.id >= robot.dof
          THEN call' = [call EXCEPT !.pc = "jdone"]
          ELSE call' = [call EXCEPT !.jposes[joint.id] = JointColumn(call.poses, link),
                                    !.i = @ + 1]
    /\ UNCHANGED <<evals, heap, urdf, pc, error, link_map, joint_map, robot, loc, fk, ctx>>

\* the loop is exhausted: return jposes
JHelperEnd ==
    /\ call.kind \in {"jimpl", "backward"}
    /\ call.pc = "jloop"
    /\ call.i > Len(fk.pose_ids)
    /\ call' = [call EXCEPT !.pc = "jdone"]
    /\ UNCHANGED <<evals, heap, urdf, pc, error, link_map, joint_map, robot, loc, fk, ctx>>

--------------------------------------------------------------------------
(* _jforward_kinematics_impl *)

\* rets = tuple(poses[id] for id in link_ids); jacs = []
StartJacs ==
    /\ call.kind = "jimpl"
    /\ call.pc = "jdone"
    /\ call' = [call EXCEPT !.pc = "jacs", !.rets = Rets(call.poses), !.i = 1]
    /\ UNCHANGED <<evals, heap, urdf, pc, error, link_map, joint_map, robot, loc, fk, ctx>>

\* a Jacobian that transports every column of jposes, not only those of angle_ids
LinkJacobianDense(poses, jposes, link_id) ==
    [c \in 0..(robot.dof - 1) |-> Mul66v(Adjoint(Inverse(poses[link_id])), jposes[c])]

\* jac = zeros; jac[:, :, sel] = se3.adjoint(se3.inverse(pose)) @ jposes[:, :, sel]
LinkJacobian(poses, jposes, link_id) ==
    LET pose == poses[link_id]
        sel == Range(link_map[robot.links[link_id + 1]].angle_ids)
    IN [c \in 0..(robot.dof - 1) |->
          IF c \in sel THEN Mul66v(Adjoint(Inverse(pose)), jposes[c]) ELSE Zero6]

\* one iteration of: for link_id in link_ids
JacStep ==
    /\ call.kind = "jimpl"
    /\ call.pc = "jacs"
    /\ call.i <= Len(fk.link_ids)
    /\ call' = [call EXCEPT
                  !.jacs = Append(@, LinkJacobian(call.poses, call.jposes,
                                                  fk.link_ids[call.i])),
                  !.i = @ + 1]
    /\ UNCHANGED <<evals, heap, urdf, pc, error, link_map, joint_map, robot, loc, fk, ctx>>

\* return jacs, rets
ReturnJImpl ==
    /\ call.kind = "jimpl"
    /\ call.pc = "jacs"
    /\ call.i > Len(fk.link_ids)
    /\ call' = [call EXCEPT !.pc = "returned"]
    /\ UNCHANGED <<evals, heap, urdf, pc, error, link_map, joint_map, robot, loc, fk, ctx>>

--------------------------------------------------------------------------
(* ForwardKinematics.backward *)

\* the upstream gradients of one pose
UpstreamGrads ==
    {<<<<1, 2, 0, 1>>, <<0, 1, 3, 0>>, <<2, 0, 1, 1>>>>,
     <<<<0, 1, 0, 0>>, <<0, 0, 1, 2>>, <<1, 0, 0, 0>>>>}

\* backward(ctx, *grad_outputs): if not hasattr(ctx, "jposes"), compute them
CallBackward ==
    /\ CanCall
    /\ ctx.saved
    /\ \E grads \in [1..Len(fk.link_ids) -> UpstreamGrads] :
         call' = [kind |-> "backward",
                  pc |-> IF ctx.has_jposes THEN "jdone" ELSE "jloop",
                  angles |-> None, poses |-> ctx.poses, i |-> 2,
                  jposes |-> IF ctx.has_jposes THEN ctx.jposes ELSE ZeroColumns,
                  jacs |-> <<>>, rets |-> ctx.rets, grads |-> grads, grad_input |-> None]
    /\ UNCHANGED <<evals, heap, urdf, pc, error, link_map, joint_map, robot, loc, fk, ctx>>

\* ctx.jposes = ...; grad_input = grad_outputs[0].new_zeros(grad_outputs[0].shape[0], robot.dof)
StartGrads ==
    /\ call.kind = "backward"
    /\ call.pc = "jdone"
    /\ ctx' = [ctx EXCEPT !.has_jposes = TRUE, !.jposes = call.jposes]
    /\ IF call.grads = <<>>
       THEN /\ call' = [call EXCEPT !.pc = "raised"]
            /\ error' = "IndexError"
       ELSE /\ call' = [call EXCEPT !.pc = "grads", !.i = 1,
                                    !.grad_input = [c \in 0..(robot.dof - 1) |-> 0]]
            /\ UNCHANGED error
    /\ UNCHANGED <<evals, heap, urdf, pc, link_map, joint_map, robot, loc, fk>>

\* se3.project(cat((grad_output @ ret.transpose(1, 2), grad_output[:, :, 3:]), dim=-1))
Temp(grad_output, ret) ==
    Project([i \in 1..3 |->
               [k \in 1..4 |->
                   IF k <= 3
                   THEN grad_output[i][1] * ret[k][1] + grad_output[i][2] * ret[k][2]
                        + grad_output[i][3] * ret[k][3] + grad_output[i][4] * ret[k][4]
                   ELSE grad_output[i][4]]])

\* an assignment in place of the accumulation
AccumulateOverwriting(grad_input, jposes, angle_ids, temp) ==
    [c \in DOMAIN grad_input |->
        IF c \in Range(angle_ids) THEN Dot6(jposes[c], temp) ELSE grad_input[c]]

\* grad_input[:, angle_ids] += ctx.jposes[:, :, angle_ids].transpose(1, 2) @ temp
Accumulate(grad_input, jposes, angle_ids, temp) ==
    [c \in DOMAIN grad_input |->
        IF c \in Range(angle_ids) THEN grad_input[c] + Dot6(jposes[c], temp)
        ELSE grad_input[c]]

\* one iteration of: for link_id, ret, grad_output in zip(link_ids, rets, grad_outputs)
GradStep ==
    /\ call.kind = "backward"
    /\ call.pc = "grads"
    /\ call.i <= Len(fk.link_ids)
    /\ LET link_id == fk.link_ids[call.i]
           angle_ids == link_map[robot.links[link_id + 1]].angle_ids
           temp == Temp(call.grads[call.i], call.rets[call.i])
       IN call' = [call EXCEPT
                     !.grad_input = Accumulate(@, ctx.jposes, angle_ids, temp),
                     !.i = @ + 1]
    /\ UNCHANGED <<evals, heap, urdf, pc, error, link_map, joint_map, robot, loc, fk, ctx>>

\* return grad_input
ReturnBackward ==
    /\ call.kind = "backward"
    /\ call.pc = "grads"
    /\ call.i > Len(fk.link_ids)
    /\ call' = [call EXCEPT !.pc = "returned"]
    /\ UNCHANGED <<evals, heap, urdf, pc, error, link_map, joint_map, robot, loc, fk, ctx>>

\* the caller takes the result, or catches the exception, of the call
Finish ==
    /\ call.kind # "idle"
    /\ call.pc \in {"returned", "raised"}
    /\ call' = NoCall
    /\ error' = ""
    /\ UNCHANGED <<evals, heap, urdf, pc, link_map, joint_map, robot, loc, fk, ctx>>

\* the autograd graph of a forward call is released, and its ctx with it
Release ==
    /\ call.kind = "idle"
    /\ ctx.saved
    /\ ctx' = NoCtx
    /\ UNCHANGED <<evals, heap, urdf, pc, error, link_map, joint_map, robot, loc, fk, call>>

Kinematics ==
    \/ Factory
    \/ CallImpl
    \/ CallJImpl
    \/ CallForward
    \/ HelperStep
    \/ ReturnImpl
    \/ ReturnForward
    \/ StartJHelper
    \/ JHelperStep
    \/ JHelperEnd
    \/ StartJacs
    \/ JacStep
    \/ ReturnJImpl
    \/ CallBackward
    \/ StartGrads
    \/ GradStep
    \/ ReturnBackward
    \/ Finish
    \/ Release

Next == Build \/ Kinematics

Spec == Init /\ [][Next]_vars

--------------------------------------------------------------------------
(* The URDF tree as declared, before any folding: the reference of the properties *)

Built == pc = "built"

Root == GetRoot(urdf)

\* the URDF joint whose child is link l
UrdfJointOf(l) == CHOOSE j \in DOMAIN urdf.joints : urdf.joints[j].child = l

RECURSIVE PathJointsFrom(_, _)
PathJointsFrom(P, l) ==
    IF P[l] = 0 THEN {} ELSE {UrdfJointOf(l)} \cup PathJointsFrom(P, P[l])

\* the joints on the declared path from the root to link l
PathJoints(l) == PathJointsFrom(UrdfParents(urdf.n, urdf.joints), l)

UrdfFixed(j) == urdf.joints[j].type = "fixed"
NonFixedJoints == {j \in DOMAIN urdf.joints : ~UrdfFixed(j)}

\* the ids of the non-fixed joints on the declared path from the root to link l
PathAngleIds(l) == {joint_map[j].id : j \in {p \in PathJoints(l) : ~UrdfFixed(p)}}

--------------------------------------------------------------------------
(* C3: after construction the ids of the non-fixed joints are exactly      *)
(* 0..dof-1 without gaps or repeats, dof is the number of non-fixed        *)
(* joints, and every fixed joint has an id >= dof.                         *)
DenseJointIds ==
    Built =>
        /\ {joint_map[j].id : j \in NonFixedJoints} = 0..(robot.dof - 1)
        /\ \A j1, j2 \in NonFixedJoints : joint_map[j1].id = joint_map[j2].id => j1 = j2
        /\ robot.dof = Cardinality(NonFixedJoints)
        /\ \A j \in DOMAIN urdf.joints : joint_map[j].id < robot.dof <=> ~UrdfFixed(j)

\* a built robot with a fixed joint declared before a non-fixed joint below it
DenseJointIdsWitness ==
    /\ Built
    /\ \E f, j \in DOMAIN urdf.joints :
          /\ UrdfFixed(f) /\ ~UrdfFixed(j) /\ f < j
          /\ urdf.joints[j].parent = urdf.joints[f].child
          /\ joint_map[j].id = 0 /\ joint_map[f].id = 1

(* C4: after construction angle_ids of every link is exactly the set of    *)
(* ids of the non-fixed joints on the path from the root to the link, and  *)
(* the root's angle_ids is empty.                                          *)
AngleIdsArePath ==
    Built =>
        /\ \A l \in 1..urdf.n :
              /\ Range(link_map[l].angle_ids) = PathAngleIds(l)
              /\ Len(link_map[l].angle_ids) = Cardinality(PathAngleIds(l))
        /\ link_map[Root].angle_ids = <<>>

\* a link below a fixed and a non-fixed joint, and a non-fixed joint off its path
AngleIdsArePathWitness ==
    /\ Built
    /\ \E l \in 1..urdf.n :
          /\ \E f \in PathJoints(l) : UrdfFixed(f)
          /\ Len(link_map[l].angle_ids) = 1
    /\ \E l \in 1..urdf.n : \E j \in NonFixedJoints :
          j \notin PathJoints(l) /\ l # Root

\* the parent link of a link of the robot as built: link.parent.parent
ParentLink(l) == joint_map[link_map[l].parent].parent

(* C5: after construction the root link has id 0 and every other link,     *)
(* also below a fixed joint, has an id greater than its parent link's.     *)
ParentIdsSmaller ==
    Built =>
        /\ link_map[Root].id = 0
        /\ \A l \in 1..urdf.n :
              l # Root => link_map[l].id > link_map[ParentLink(l)].id

\* a link below a fixed joint whose parent link is not the root
ParentIdsSmallerWitness ==
    /\ Built
    /\ \E l \in 1..urdf.n :
          /\ l # Root
          /\ IsFixed(joint_map, link_map[l].parent)
          /\ ParentLink(l) # Root

--------------------------------------------------------------------------
(* Reference poses: the relative poses of the joints as declared in the    *)
(* URDF, composed along the declared path from the root                    *)

DeclaredOrigin(j) == GetOrigin(UrdfXyz(j), UrdfRpy(j))

\* the relative pose of URDF joint j with its declared origin
DeclaredRelativePose(j, angles) ==
    RelativePose([joint_map[j] EXCEPT !.origin = DeclaredOrigin(j)],
                 IF UrdfFixed(j) THEN 0 ELSE angles.vals[joint_map[j].id + 1])

RECURSIVE DeclaredPoseFrom(_, _, _)
DeclaredPoseFrom(P, l, angles) ==
    IF P[l] = 0 THEN Identity34
    ELSE Compose(DeclaredPoseFrom(P, P[l], angles),
                 DeclaredRelativePose(UrdfJointOf(l), angles))

\* the world pose of link l on the unfolded chain
DeclaredPose(l, angles) == DeclaredPoseFrom(UrdfParents(urdf.n, urdf.joints), l, angles)

\* the world pose of every link on the unfolded chain
DeclaredPoses(angles) == [l \in 1..urdf.n |-> DeclaredPose(l, angles)]

InForwardPass == call.kind \in {"impl", "jimpl", "forward"}

\* the link the iteration at hand of the forward loop computes
CurrentLink == robot.links[fk.pose_ids[call.i] + 1]

(* C1: the forward pass visits links in increasing id order, and when it   *)
(* computes the pose of a non-root link the pose slot of the parent link   *)
(* has been written in the same call; it never reads an empty slot.        *)
ParentPoseWritten ==
    /\ fk.made =>
          \A i \in 1..(Len(fk.pose_ids) - 1) : fk.pose_ids[i] < fk.pose_ids[i + 1]
    /\ error \notin {"TypeError", "AttributeError"}
    /\ (InForwardPass /\ call.pc = "loop" /\ call.i <= Len(fk.pose_ids)) =>
          /\ CurrentLink # Root
          /\ call.poses[link_map[ParentLink(CurrentLink)].id] # None
          /\ call.poses[link_map[CurrentLink].id] = None

\* the loop is about to compute a link whose parent is not the root
ParentPoseWrittenWitness ==
    /\ InForwardPass /\ call.pc = "loop" /\ call.i <= Len(fk.pose_ids)
    /\ ParentLink(CurrentLink) # Root
    /\ call.poses[link_map[ParentLink(CurrentLink)].id] # None

(* C2: every pose the forward pass computes on the folded chain equals the *)
(* composition of the relative poses of all joints on the link's declared  *)
(* (unfolded) path from the root.                                          *)
FoldedEqualsUnfolded ==
    (InForwardPass /\ call.pc # "raised") =>
        \A P \in {DeclaredPoses(call.angles)} :
            \A id \in DOMAIN call.poses :
                call.poses[id] # None => call.poses[id] = P[robot.links[id + 1]]

\* a returned pose of a link below a non-fixed joint that was declared below a fixed joint
FoldedEqualsUnfoldedWitness ==
    /\ InForwardPass /\ call.pc = "returned"
    /\ \E l \in 1..urdf.n :
          /\ l # Root
          /\ ~UrdfFixed(UrdfJointOf(l))
          /\ \E f \in PathJoints(l) : UrdfFixed(f)
          /\ call.angles.vals[joint_map[UrdfJointOf(l)].id + 1] = 1
          /\ call.poses[link_map[l].id] # None

\* the link with an id
LinkWithId(id) == CHOOSE l \in 1..urdf.n : link_map[l].id = id

\* the i-th link a request asks for
Requested(m) == IF fk.has_names THEN fk.names[m] ELSE LinkWithId(m - 1)
NumRequested == IF fk.has_names THEN Len(fk.names) ELSE urdf.n

(* C8: the call returns one pose for each requested name, the i-th output  *)
(* being the world pose of the i-th requested link, also when names        *)
(* repeat; without names it returns the poses of all links in id order.    *)
OnePosePerName ==
    (InForwardPass /\ call.pc = "returned") =>
        /\ DOMAIN call.rets = 1..NumRequested
        /\ \A P \in {DeclaredPoses(call.angles)} :
              \A m \in 1..NumRequested : call.rets[m] = P[Requested(m)]

\* two names are requested against the id order, and the poses differ
OnePosePerNameWitness ==
    /\ InForwardPass /\ call.pc = "returned"
    /\ fk.has_names /\ Len(fk.names) = 2
    /\ link_map[fk.names[1]].id > link_map[fk.names[2]].id
    /\ call.rets[1] # call.rets[2]

UnknownRequested ==
    fk.has_names /\ \E i \in 1..Len(fk.names) : fk.names[i] \notin 1..urdf.n

(* C9: a request with a name that is no link of the robot fails with a     *)
(* lookup error wherever the name stands in the list; no closure is made,  *)
(* so that no pose, Jacobian or gradient is computed for any name.         *)
UnknownNameFails ==
    /\ (Built /\ UnknownRequested) =>
          /\ error = "KeyError"
          /\ ~fk.made
          /\ call = NoCall
          /\ ctx = NoCtx
    /\ error = "KeyError" => (Built /\ UnknownRequested)

\* the unknown name stands last, after the name of a link
UnknownNameFailsWitness ==
    /\ error = "KeyError"
    /\ Len(fk.names) = 2
    /\ fk.names[1] \in 1..urdf.n
    /\ fk.names[2] \notin 1..urdf.n

(* C10: a call whose angle batch is not two-dimensional, or whose column   *)
(* count is not robot.dof, fails with a validation error before any pose   *)
(* slot is written and returns nothing; no ctx is saved for a backward.    *)
BadAnglesFail ==
    /\ (InForwardPass /\ (call.angles.ndim # 2 \/ call.angles.cols # robot.dof)) =>
          /\ call.pc = "raised"
          /\ error = "ValueError"
          /\ call.poses = None
          /\ call.rets = None
          /\ call.jacs = <<>>
          /\ ~ctx.saved
    /\ (InForwardPass /\ call.angles.ndim = 2 /\ call.angles.cols = robot.dof) =>
          call.pc # "raised"
    /\ call.kind = "backward" => ctx.saved

\* a one-dimensional batch with the right number of angles is refused
BadAnglesFailWitness ==
    /\ call.kind = "forward"
    /\ call.pc = "raised"
    /\ call.angles.ndim = 1
    /\ call.angles.cols = robot.dof
    /\ robot.dof > 0

\* the joint with an id
JointWithId(id) == CHOOSE j \in DOMAIN urdf.joints : joint_map[j].id = id

\* the body velocity that joint j contributes at its own child link, for world poses P
JointTwist(P, j) == Mul66v(Adjoint(P[urdf.joints[j].child]), joint_map[j].axis)

(* C7: in the Jacobian of every requested link the columns listed in       *)
(* angle_ids hold the contribution of the ancestor joint with that id,     *)
(* and every column of a joint off the link's ancestor path is zero.       *)
JacobianColumns ==
    (call.kind = "jimpl" /\ call.pc = "returned") =>
        \A P \in {DeclaredPoses(call.angles)} :
           /\ DOMAIN call.jacs = 1..NumRequested
           /\ \A m \in 1..NumRequested :
                 \A c \in 0..(robot.dof - 1) :
                     IF c \in PathAngleIds(Requested(m))
                     THEN /\ call.jacs[m][c] =
                                Mul66v(Adjoint(Inverse(P[Requested(m)])),
                                       JointTwist(P, JointWithId(c)))
                          /\ call.jacs[m][c] # Zero6
                     ELSE call.jacs[m][c] = Zero6

\* two links are requested, and the helper has a column that is off the path of one
JacobianColumnsWitness ==
    /\ call.kind = "jimpl" /\ call.pc = "returned"
    /\ \E m \in 1..NumRequested : \E c \in 0..(robot.dof - 1) :
          /\ c \notin PathAngleIds(Requested(m))
          /\ call.jposes[c] # Zero6
          /\ link_map[Requested(m)].angle_ids # <<>>

\* the gradient a backward call for the m-th requested link alone returns in column c
SingleLinkGrad(m, c) ==
    IF c \in PathAngleIds(Requested(m))
    THEN Dot6(Mul66v(Adjoint(ctx.poses[link_map[urdf.joints[JointWithId(c)].child].id]),
                     joint_map[JointWithId(c)].axis),
              Temp(call.grads[m], ctx.poses[link_map[Requested(m)].id]))
    ELSE 0

RECURSIVE SumOfSingleLinkGrads(_, _)
SumOfSingleLinkGrads(m, c) ==
    IF m = 0 THEN 0 ELSE SumOfSingleLinkGrads(m - 1, c) + SingleLinkGrad(m, c)

(* C6: column j of the gradient backward returns is the sum, over the      *)
(* requested links whose angle_ids contain j, of the link's own            *)
(* contribution, that is the sum of the single-link gradients; columns of  *)
(* joints that influence no requested link are zero.                       *)
GradientIsSum ==
    (call.kind = "backward" /\ call.pc = "returned") =>
        /\ DOMAIN call.grad_input = 0..(robot.dof - 1)
        /\ \A c \in 0..(robot.dof - 1) :
              call.grad_input[c] = SumOfSingleLinkGrads(NumRequested, c)

\* two different requested links share a joint, and each contributes to its column
GradientIsSumWitness ==
    /\ call.kind = "backward" /\ call.pc = "returned"
    /\ fk.has_names /\ Len(fk.names) = 2 /\ fk.names[1] # fk.names[2]
    /\ \E c \in 0..(robot.dof - 1) :
          /\ SingleLinkGrad(1, c) # 0
          /\ SingleLinkGrad(2, c) # 0
          /\ SingleLinkGrad(1, c) # SingleLinkGrad(2, c)

--------------------------------------------------------------------------
\* the URDF joints whose type from_urdf_file does not support
Unsupported == {j \in DOMAIN urdf.joints :
                   urdf.joints[j].type \notin {"revolute", "continuous", "prismatic", "fixed"}}

\* the first of them in the joint list
FirstUnsupported == CHOOSE j \in Unsupported : \A k \in Unsupported : j <= k

(* C12: when a joint of the URDF has a type other than revolute,           *)
(* continuous, prismatic or fixed, construction never gets past that joint *)
(* of the joint list: it raises ValueError there and returns no robot,     *)
(* wherever the joint sits in the list.                                    *)
UnsupportedTypeFails ==
    (pc # "parse" /\ Unsupported # {}) =>
        /\ pc \in {"links", "joints", "failed"}
        /\ pc = "joints" => loc.i <= FirstUnsupported
        /\ pc = "failed" =>
              /\ error = "ValueError"
              /\ loc.i = FirstUnsupported
              /\ Len(joint_map) = FirstUnsupported - 1
              /\ robot = EmptyRobot

\* the unsupported joint is the last of the list, after a supported one
UnsupportedTypeFailsWitness ==
    /\ pc = "failed"
    /\ error = "ValueError"
    /\ urdf.n = 3
    /\ Unsupported = {2}

--------------------------------------------------------------------------
\* the ids of the pose slots a call has written
WrittenSlots == {id \in DOMAIN call.poses : call.poses[id] # None}

\* the ids of the root, of the requested links and of their ancestors (link.ancestors)
NeededSlots ==
    {0}
    \cup {link_map[Requested(m)].id : m \in 1..NumRequested}
    \cup UNION {{link_map[a].id : a \in Range(link_map[Requested(m)].ancestors)}
                   : m \in 1..NumRequested}

(* C19: within one forward call a pose slot that has been written is never *)
(* written again, and when the loop is over the written slots are exactly  *)
(* those of the root, of the requested links and of their ancestors; every *)
(* other slot is still empty.                                              *)
SlotsWrittenOnce ==
    /\ [](/\ (InForwardPass /\ call.pc # "raised") => WrittenSlots \subseteq NeededSlots
          /\ (/\ InForwardPass
              /\ call.pc # "raised"
              /\ call.pc = "loop" => call.i > Len(fk.pose_ids)) => WrittenSlots = NeededSlots)
    /\ [][(InForwardPass /\ InForwardPass') =>
             \A id \in WrittenSlots : call'.pc # "raised" => call'.poses[id] = call.poses[id]]_vars

\* a call has returned: the slot of a requested link below the root is written, and the
\* slot of a link with a smaller id, neither requested nor an ancestor, is empty
SlotsWrittenOnceWitness ==
    /\ InForwardPass /\ call.pc = "returned"
    /\ fk.has_names
    /\ \E id \in WrittenSlots : \E other \in DOMAIN call.poses :
          /\ other \notin WrittenSlots
          /\ 0 < other /\ other < id

--------------------------------------------------------------------------
(* The joint classes, as a caller constructs and evaluates them            *)

\* largest angle of a relative_pose call, in quarter turns
MaxTurn == 3

Dtypes == {"float32", "float64"}
\* dtype = None
NoDtype == "None"
\* torch.get_default_dtype()
DefaultDtype == "float32"

GenericKinds == {"RevoluteJoint", "PrismaticJoint"}
RevolutePrincipalKinds == {"RevoluteJointX", "RevoluteJointY", "RevoluteJointZ"}
PrismaticPrincipalKinds == {"PrismaticJointX", "PrismaticJointY", "PrismaticJointZ"}

\* the origin arguments of a constructor: none, elements of SE(3) in either dtype,
\* a batch of two transforms, and a matrix that is no rigid transform
OriginArgs ==
    {[given |-> FALSE]}
    \cup {[given |-> TRUE, shape0 |-> 1, group |-> TRUE, dtype |-> d, mat |-> m] :
            d \in Dtypes,
            m \in {Identity34} \cup {GetOrigin(UrdfXyz(j), UrdfRpy(j)) : j \in 1..3}}
    \cup {[given |-> TRUE, shape0 |-> 2, group |-> TRUE, dtype |-> "float32",
           mat |-> Identity34],
          [given |-> TRUE, shape0 |-> 1, group |-> FALSE, dtype |-> "float32",
           mat |-> <<<<2, 0, 0, 0>>, <<0, 1, 0, 0>>, <<0, 0, 1, 0>>>>]}

\* the axis arguments of a generic constructor: 3-vectors of shape (3,) and (3, 1),
\* and tensors of other shapes
AxisArgs ==
    {[shape |-> s, dtype |-> d, val |-> v] :
        s \in {<<3>>, <<3, 1>>}, d \in Dtypes,
        v \in {<<1, 0, 0>>, <<0, 1, 0>>, <<0, 0, 1>>}}
    \cup {[shape |-> s, dtype |-> d, val |-> <<1, 0, 0>>] :
            s \in {<<>>, <<2>>, <<4>>, <<1, 3>>, <<3, 2>>, <<3, 1, 1>>}, d \in Dtypes}

\* if x.ndim == 1: x = x.view(-1, 1)
ColumnShape(shape) == IF Len(shape) = 1 THEN <<shape[1], 1>> ELSE shape

\* a check of the rank alone, after the reshaping
BadAxisShapeRankOnly(shape) == Len(ColumnShape(shape)) # 2

\* revolute_axis.ndim != 2 or revolute_axis.shape != (3, 1), after the reshaping
BadAxisShape(shape) == Len(ColumnShape(shape)) # 2 \/ ColumnShape(shape) # <<3, 1>>

\* Joint.__init__: the origin and the dtype of the joint, or ValueError
JointBase(origin, dtype) ==
    IF origin.given
    THEN IF origin.shape0 # 1 \/ ~origin.group
         THEN [ok |-> FALSE, origin |-> Identity34, dtype |-> NoDtype]
         ELSE [ok |-> TRUE, origin |-> origin.mat, dtype |-> origin.dtype]
    ELSE [ok |-> TRUE, origin |-> Identity34,
          dtype |-> IF dtype = NoDtype THEN DefaultDtype ELSE dtype]

\* the constructor of a joint class: the joint it returns, or ValueError
Construct(kind, axis, origin, dtype) ==
    LET base == JointBase(origin, dtype)
        failed == [ok |-> FALSE, dtype |-> NoDtype,
                   joint |-> NewJoint(kind, <<0, 0, 0>>, -1, -1, Identity34)]
    IN IF kind \in GenericKinds
       THEN IF BadAxisShape(axis.shape) THEN failed
            ELSE IF ~base.ok THEN failed
            ELSE IF axis.dtype # base.dtype THEN failed
            ELSE [ok |-> TRUE, dtype |-> base.dtype,
                  joint |-> NewJoint(kind, axis.val, -1, -1, base.origin)]
       ELSE IF ~base.ok THEN failed
            ELSE [ok |-> TRUE, dtype |-> base.dtype,
                  joint |-> NewJoint(kind, <<0, 0, 0>>, -1, -1, base.origin)]

\* a caller constructs a joint of one of the revolute and prismatic classes
CallConstructor ==
    /\ pc = "parse"
    /\ call = NoCall
    /\ joint_map = <<>>
    /\ \E kind \in GenericKinds \cup RevolutePrincipalKinds \cup PrismaticPrincipalKinds,
          origin \in OriginArgs, dtype \in {NoDtype} \cup Dtypes :
         \E axis \in IF kind \in GenericKinds THEN AxisArgs
                     ELSE {[shape |-> <<3>>, dtype |-> NoDtype, val |-> <<0, 0, 0>>]} :
            LET r == Construct(kind, axis, origin, dtype)
            IN /\ call' = [kind |-> "construct", class |-> kind, axis |-> axis,
                           origin |-> origin, dtype |-> dtype,
                           pc |-> IF r.ok THEN "returned" ELSE "raised",
                           joint_dtype |-> r.dtype]
               /\ joint_map' = IF r.ok THEN <<r.joint>> ELSE <<>>
               /\ error' = IF r.ok THEN "" ELSE "ValueError"
    /\ UNCHANGED <<evals, heap, urdf, pc, link_map, robot, loc, fk, ctx>>

\* a check of the rank without the reshaping to a vector
BadFlatUnreshaped(shape) == Len(shape) # 1

\* if angle.ndim == 2 and angle.shape[1] == 1: angle = angle.view(-1), then the check
\* angle.ndim != 1
BadFlat(shape) ==
    Len(IF Len(shape) = 2 /\ shape[2] = 1 THEN <<shape[1]>> ELSE shape) # 1

\* joint.relative_pose(angle) on the joint constructed
CallRelativePose ==
    /\ call.kind = "construct"
    /\ call.pc = "returned"
    /\ \E shape \in {<<>>, <<1>>, <<2>>, <<1, 1>>, <<2, 1>>, <<1, 2>>, <<2, 2>>, <<1, 1, 1>>},
          q \in 0..MaxTurn :
         LET joint == joint_map[1]
             \* the principal-axis revolute classes check the angle as a vector, the
             \* others as a column: angle.ndim != 2 or angle.shape[1] != 1
             bad == IF joint.kind \in RevolutePrincipalKinds THEN BadFlat(shape)
                    ELSE Len(ColumnShape(shape)) # 2 \/ ColumnShape(shape)[2] # 1
         IN /\ call' = [kind |-> "relative_pose", shape |-> shape, angle |-> q,
                        pc |-> IF bad THEN "raised" ELSE "returned",
                        ret |-> IF bad THEN Identity34 ELSE RelativePose(joint, q)]
            /\ error' = IF bad THEN "ValueError" ELSE ""
    /\ UNCHANGED <<evals, heap, urdf, pc, link_map, joint_map, robot, loc, fk, ctx>>

\* poses of root, link A and link B of the chain root - joint - A - fixed - B:
\* poses[curr.id] = se3.compose(poses[prev.id], relative_pose)
ChainPoses(joint, fixed, q) ==
    LET root == Identity34
        a == Compose(root, RelativePose(joint, q))
        b == Compose(a, RelativePose(fixed, 0))
    IN <<root, a, b>>

\* the forward pass over a two-link chain of the joint constructed and a fixed joint
CallChain ==
    /\ call.kind = "construct"
    /\ call.pc = "returned"
    /\ \E xyz \in {<<1, 0, 0>>, <<0, 1, 0>>, <<0, 0, 1>>}, q \in 0..MaxTurn :
         call' = [kind |-> "chain", class |-> joint_map[1].kind, xyz |-> xyz, angle |-> q,
                  pc |-> "returned",
                  poses |-> ChainPoses(joint_map[1],
                                      \* FixedJoint(name, origin=origin)
                                      NewJoint("FixedJoint", <<0, 0, 0>>, -1, -1,
                                               GetOrigin(xyz, <<0, 0, 0>>)),
                                      q)]
    /\ UNCHANGED <<evals, heap, urdf, pc, error, link_map, joint_map, robot, loc, fk, ctx>>

JointApi ==
    \/ CallConstructor
    \/ CallRelativePose
    \/ CallChain

SpecJoint == Init /\ [][JointApi]_vars

--------------------------------------------------------------------------
(* C13: the 6-vector axis of every prismatic joint class (generic, X, Y, Z) *)
(* is nonzero only in the slots 0-2 that the generic prismatic joint uses, *)
(* and the axis of every revolute joint class (generic, X, Y, Z) only in   *)
(* the slots 3-5 that the generic revolute joint uses.                     *)
AxisInOwnSlots ==
    (call.kind = "construct" /\ call.pc = "returned") =>
        LET axis == joint_map[1].axis
        IN /\ call.class \in {"PrismaticJoint"} \cup PrismaticPrincipalKinds =>
                 \A k \in 4..6 : axis[k] = 0
           /\ call.class \in {"RevoluteJoint"} \cup RevolutePrincipalKinds =>
                 \A k \in 1..3 : axis[k] = 0

\* the shapes of a 3-vector: (3,) and (3, 1)
ThreeVector(shape) == shape = <<3>> \/ shape = <<3, 1>>

(* C14: the constructor of a generic revolute or prismatic joint raises     *)
(* ValueError and produces no joint whenever the axis is no 3-vector of    *)
(* shape (3,) or (3, 1), and whenever the dtype of the axis differs from   *)
(* the dtype of the joint, which is the dtype of the origin when an origin *)
(* is given; with a 3-vector of the joint's dtype and an origin in SE(3)   *)
(* it returns the joint.                                                   *)
BadAxisFails ==
    (call.kind = "construct" /\ call.class \in GenericKinds) =>
        LET joint_dtype == IF call.origin.given THEN call.origin.dtype
                           ELSE IF call.dtype = NoDtype THEN DefaultDtype ELSE call.dtype
            bad_origin == call.origin.given /\ (call.origin.shape0 # 1 \/ ~call.origin.group)
        IN /\ (~ThreeVector(call.axis.shape) \/ call.axis.dtype # joint_dtype) =>
                 /\ call.pc = "raised"
                 /\ error = "ValueError"
                 /\ joint_map = <<>>
           /\ (ThreeVector(call.axis.shape) /\ call.axis.dtype = joint_dtype /\ ~bad_origin) =>
                 /\ call.pc = "returned"
                 /\ Len(joint_map) = 1
                 /\ joint_map[1].kind = call.class

\* a 3-vector whose dtype is the dtype argument, and not the dtype of the origin, is refused
BadAxisFailsWitness ==
    /\ call.kind = "construct" /\ call.pc = "raised"
    /\ call.class = "PrismaticJoint"
    /\ call.axis.shape = <<3>>
    /\ call.origin.given /\ call.origin.shape0 = 1 /\ call.origin.group
    /\ call.axis.dtype = call.dtype
    /\ call.axis.dtype # call.origin.dtype

\* the shapes (N,) and (N, 1)
AngleVector(shape) == Len(shape) = 1 \/ (Len(shape) = 2 /\ shape[2] = 1)

(* C15: relative_pose of every revolute and prismatic joint class raises   *)
(* ValueError for every angle whose shape is neither (N,) nor (N, 1), a    *)
(* scalar, an (N, 2) matrix or a 3-dimensional tensor for example, and     *)
(* returns a pose for both accepted shapes.                                *)
BadAngleShapeFails ==
    call.kind = "relative_pose" =>
        /\ AngleVector(call.shape) => call.pc = "returned" /\ error = ""
        /\ ~AngleVector(call.shape) => call.pc = "raised" /\ error = "ValueError"

\* a principal-axis revolute joint takes a column of two angles
BadAngleShapeFailsWitness ==
    /\ call.kind = "relative_pose" /\ call.pc = "returned"
    /\ joint_map[1].kind = "RevoluteJointX"
    /\ call.shape = <<2, 1>>

\* the unit axis of a principal-axis class
UnitAxis(kind) ==
    CASE kind \in {"RevoluteJointX", "PrismaticJointX"} -> <<1, 0, 0>>
      [] kind \in {"RevoluteJointY", "PrismaticJointY"} -> <<0, 1, 0>>
      [] OTHER -> <<0, 0, 1>>

\* the column of the origin's rotation that belongs to a principal-axis class
AxisColumn(kind) ==
    CASE kind \in {"RevoluteJointX", "PrismaticJointX"} -> 1
      [] kind \in {"RevoluteJointY", "PrismaticJointY"} -> 2
      [] OTHER -> 3

(* C20: relative_pose of PrismaticJointX, Y and Z equals relative_pose of   *)
(* the generic PrismaticJoint with the unit axis (1,0,0), (0,1,0), (0,0,1) *)
(* and the same origin: the rotation block is the origin's rotation and    *)
(* the translation is the origin's translation plus the angle times the    *)
(* origin's rotation column of that axis.                                  *)
PrincipalEqualsGeneric ==
    (call.kind = "relative_pose" /\ call.pc = "returned"
        /\ joint_map[1].kind \in PrismaticPrincipalKinds) =>
        LET joint == joint_map[1]
            o == joint.origin
            generic == NewJoint("PrismaticJoint", UnitAxis(joint.kind), -1, -1, o)
        IN /\ call.ret = RelativePose(generic, call.angle)
           /\ Rot(call.ret) = Rot(o)
           /\ \A i \in 1..3 :
                 call.ret[i][4] = o[i][4] + call.angle * o[i][AxisColumn(joint.kind)]

\* PrismaticJointY, two steps along the Y column of an origin that is rotated
PrincipalEqualsGenericWitness ==
    /\ call.kind = "relative_pose" /\ call.pc = "returned"
    /\ joint_map[1].kind = "PrismaticJointY"
    /\ call.angle = 2
    /\ joint_map[1].origin[1][2] # joint_map[1].origin[2][1]

\* a pose applied to a point: rotation and translation
Apply(pose, p) ==
    [i \in 1..3 |-> pose[i][1] * p[1] + pose[i][2] * p[2] + pose[i][3] * p[3] + pose[i][4]]

\* the chain of the example: RevoluteJointX at the root, fixed joint with translation (1,0,0)
ExampleChain ==
    /\ call.kind = "chain"
    /\ call.class = "RevoluteJointX"
    /\ joint_map[1].origin = Identity34
    /\ call.xyz = <<1, 0, 0>>

(* C17: on the chain root, revolute-X joint, link A, fixed joint with       *)
(* translation (1,0,0), link B, the world position of link B is (1,0,0) at *)
(* angle 0 and at angle pi (two quarter turns), and at angle pi the point  *)
(* of link B that was at (0,1,0) at angle 0 is at (0,-1,0).                *)
TwoLinkExample ==
    ExampleChain =>
        /\ call.angle = 0 =>
              /\ Trans(call.poses[3]) = <<1, 0, 0>>
              /\ Apply(call.poses[3], <<-1, 1, 0>>) = <<0, 1, 0>>
        /\ call.angle = 2 =>
              /\ Trans(call.poses[3]) = <<1, 0, 0>>
              /\ Apply(call.poses[3], <<-1, 1, 0>>) = <<0, -1, 0>>

\* the example chain at angle pi
TwoLinkExampleWitness ==
    /\ ExampleChain
    /\ call.angle = 2
    /\ call.poses[2] # Identity34

--------------------------------------------------------------------------
(* C11: for every topology that is not a single tree rooted at the root (a  *)
(* link or joint unreachable from the root, a link with two parent joints, *)
(* a cycle) construction fails with an error and returns no robot.         *)
NonTreeFails ==
    (pc # "parse" /\ ~(Len(urdf.joints) = urdf.n - 1 /\ IsTree(urdf.n, urdf.joints)))
        => pc # "built"

--------------------------------------------------------------------------
(* Several evaluations interleaved on one robot and one set of closures    *)

\* ForwardKinematicsFactory(robot): link_names is None
FactoryAllLinks ==
    /\ pc = "built"
    /\ ~fk.made
    /\ error = ""
    /\ fk' = Closure(FALSE, None, RequestedLinks(FALSE, None))
    /\ UNCHANGED <<evals, heap, urdf, pc, error, link_map, joint_map, robot, loc, call, ctx>>

\* a poses list that the factory allocates once and every call reuses
PosesObjectShared(e) == 1

\* poses = [None] * robot.num_links: the list object a call of the helper allocates
PosesObject(e) == e

\* evaluation e calls _jforward_kinematics_impl or ForwardKinematics.apply (whose
\* forward is a call of _forward_kinematics_impl) on a batch of its own, well-shaped
\* and with every joint at the same angle; evaluations are numbered in the order in
\* which they start
EvalStart(e) ==
    /\ pc = "built" /\ fk.made /\ error = ""
    /\ evals[e].kind = "idle"
    /\ \A d \in Evals : d < e => evals[d].kind # "idle"
    /\ \E kind \in {"jimpl", "forward"},
          angles \in {b \in AngleBatches :
                        /\ ~BadAngles(b)
                        /\ \A c, d \in DOMAIN b.vals : b.vals[c] = b.vals[d]} :
         evals' = [evals EXCEPT ![e] =
                     [kind |-> kind, pc |-> "loop", angles |-> angles,
                      obj |-> PosesObject(e), i |-> 2, jposes |-> ZeroColumns,
                      jacs |-> <<>>, rets |-> <<>>, grads |-> <<>>,
                      grad_input |-> <<>>]]
    /\ heap' = [heap EXCEPT ![PosesObject(e)] = InitialPoses]
    /\ UNCHANGED <<urdf, pc, error, link_map, joint_map, robot, loc, fk, call, ctx>>

\* one iteration of: for id in pose_ids[1:], in the forward helper of evaluation e
EvalHelperStep(e) ==
    /\ evals[e].kind \in {"jimpl", "forward"}
    /\ evals[e].pc = "loop"
    /\ evals[e].i <= Len(fk.pose_ids)
    /\ LET id == fk.pose_ids[evals[e].i]
           pose == NextPose(heap[evals[e].obj], evals[e].angles, id)
       IN IF pose = None
          THEN /\ evals' = [evals EXCEPT ![e].pc = "raised"]
               /\ UNCHANGED heap
          ELSE /\ heap' = [heap EXCEPT ![evals[e].obj][id] = pose]
               /\ evals' = [evals EXCEPT ![e].i = @ + 1]
    /\ UNCHANGED <<urdf, pc, error, link_map, joint_map, robot, loc, fk, call, ctx>>

\* return poses: to _forward_kinematics_impl, whose result forward saves as ctx.poses
\* and ctx.rets, and to _jforward_kinematics_impl, which goes on with the Jacobian helper
EvalHelperEnd(e) ==
    /\ evals[e].kind \in {"jimpl", "forward"}
    /\ evals[e].pc = "loop"
    /\ evals[e].i > Len(fk.pose_ids)
    /\ evals' = [evals EXCEPT
                   ![e].pc = IF evals[e].kind = "forward" THEN "saved" ELSE "jloop",
                   ![e].rets = IF evals[e].kind = "jimpl" THEN <<>>
                               ELSE Rets(heap[evals[e].obj]),
                   ![e].i = 2]
    /\ UNCHANGED <<heap, urdf, pc, error, link_map, joint_map, robot, loc, fk, call, ctx>>

\* backward(ctx, *grad_outputs) on the ctx that the forward of evaluation e saved, with
\* one upstream gradient for every requested link, another for the next evaluation
EvalBackward(e) ==
    /\ evals[e].kind = "forward"
    /\ evals[e].pc = "saved"
    /\ evals' = [evals EXCEPT ![e].kind = "backward", ![e].pc = "jloop", ![e].i = 2,
                              ![e].grads = [m \in 1..Len(fk.link_ids) |->
                                               CHOOSE g \in UpstreamGrads : g[1][1] = e % 2]]
    /\ UNCHANGED <<heap, urdf, pc, error, link_map, joint_map, robot, loc, fk, call, ctx>>

\* one iteration of the loop of _jforward_kinematics_helper, with its break
EvalJHelperStep(e) ==
    /\ evals[e].kind \in {"jimpl", "backward"}
    /\ evals[e].pc = "jloop"
    /\ evals[e].i <= Len(fk.pose_ids)
    /\ LET id == fk.pose_ids[evals[e].i]
           link == robot.links[id + 1]
           joint == joint_map[link_map[link].parent]
           poses == heap[evals[e].obj]
       IN IF joint.id >= robot.dof
          THEN evals' = [evals EXCEPT ![e].pc = "jdone"]
          ELSE IF poses[link_map[link].id] = None
          THEN evals' = [evals EXCEPT ![e].pc = "raised"]
          ELSE evals' = [evals EXCEPT ![e].jposes[joint.id] = JointColumn(poses, link),
                                      ![e].i = @ + 1]
    /\ UNCHANGED <<heap, urdf, pc, error, link_map, joint_map, robot, loc, fk, call, ctx>>

\* return jposes: to _jforward_kinematics_impl, which takes rets, and to backward,
\* which allocates grad_input
EvalJHelperEnd(e) ==
    /\ evals[e].kind \in {"jimpl", "backward"}
    /\ \/ evals[e].pc = "jloop" /\ evals[e].i > Len(fk.pose_ids)
       \/ evals[e].pc = "jdone"
    /\ IF evals[e].kind = "jimpl"
       THEN evals' = [evals EXCEPT ![e].pc = "jacs", ![e].i = 1,
                                   ![e].rets = Rets(heap[evals[e].obj])]
       ELSE IF evals[e].grads = <<>>
       THEN evals' = [evals EXCEPT ![e].pc = "raised"]
       ELSE evals' = [evals EXCEPT ![e].pc = "grads", ![e].i = 1,
                                   ![e].grad_input = [c \in 0..(robot.dof - 1) |-> 0]]
    /\ UNCHANGED <<heap, urdf, pc, error, link_map, joint_map, robot, loc, fk, call, ctx>>

\* one iteration of: for link_id in link_ids, in _jforward_kinematics_impl
EvalJacStep(e) ==
    /\ evals[e].kind = "jimpl"
    /\ evals[e].pc = "jacs"
    /\ evals[e].i <= Len(fk.link_ids)
    /\ LET poses == heap[evals[e].obj]
           link_id == fk.link_ids[evals[e].i]
       IN IF poses[link_id] = None
          THEN evals' = [evals EXCEPT ![e].pc = "raised"]
          ELSE evals' = [evals EXCEPT
                           ![e].jacs = Append(@, LinkJacobian(poses, evals[e].jposes, link_id)),
                           ![e].i = @ + 1]
    /\ UNCHANGED <<heap, urdf, pc, error, link_map, joint_map, robot, loc, fk, call, ctx>>

\* one iteration of: for link_id, ret, grad_output in zip(...), in backward
EvalGradStep(e) ==
    /\ evals[e].kind = "backward"
    /\ evals[e].pc = "grads"
    /\ evals[e].i <= Len(fk.link_ids)
    /\ LET link_id == fk.link_ids[evals[e].i]
           angle_ids == link_map[robot.links[link_id + 1]].angle_ids
           temp == Temp(evals[e].grads[evals[e].i], evals[e].rets[evals[e].i])
       IN IF evals[e].rets[evals[e].i] = None
          THEN evals' = [evals EXCEPT ![e].pc = "raised"]
          ELSE evals' = [evals EXCEPT
                           ![e].grad_input = Accumulate(@, evals[e].jposes, angle_ids, temp),
                           ![e].i = @ + 1]
    /\ UNCHANGED <<heap, urdf, pc, error, link_map, joint_map, robot, loc, fk, call, ctx>>

\* return jacs, rets of _jforward_kinematics_impl; return grad_input of backward
EvalReturn(e) ==
    /\ evals[e].kind \in {"jimpl", "backward"}
    /\ evals[e].pc \in {"jacs", "grads"}
    /\ evals[e].i > Len(fk.link_ids)
    /\ evals' = [evals EXCEPT ![e].pc = "returned"]
    /\ UNCHANGED <<heap, urdf, pc, error, link_map, joint_map, robot, loc, fk, call, ctx>>

Evaluations ==
    \E e \in Evals :
        \/ EvalStart(e)
        \/ EvalHelperStep(e)
        \/ EvalHelperEnd(e)
        \/ EvalBackward(e)
        \/ EvalJHelperStep(e)
        \/ EvalJHelperEnd(e)
        \/ EvalJacStep(e)
        \/ EvalGradStep(e)
        \/ EvalReturn(e)

SpecShared == Init /\ [][Build \/ FactoryAllLinks \/ Evaluations]_vars

--------------------------------------------------------------------------
(* One evaluation run alone, from its call to its return                   *)

RECURSIVE RunHelper(_, _, _)
\* the loop of _forward_kinematics_helper from position i of pose_ids
RunHelper(poses, angles, i) ==
    IF i > Len(fk.pose_ids) THEN poses
    ELSE CHOOSE r \in {RunHelper([p EXCEPT ![fk.pose_ids[i]] =
                                      NextPose(p, angles, fk.pose_ids[i])],
                                 angles, i + 1) : p \in {poses}} : TRUE

RECURSIVE RunJHelper(_, _, _)
\* the loop of _jforward_kinematics_helper from position i of pose_ids, with its break
RunJHelper(poses, jposes, i) ==
    IF i > Len(fk.pose_ids) THEN jposes
    ELSE LET link == robot.links[fk.pose_ids[i] + 1]
             joint == joint_map[link_map[link].parent]
         IN IF joint.id >= robot.dof THEN jposes
            ELSE CHOOSE r \in {RunJHelper(poses,
                                          [j EXCEPT ![joint.id] = JointColumn(poses, link)],
                                          i + 1) : j \in {jposes}} : TRUE

RECURSIVE RunGrads(_, _, _, _, _)
\* the loop of backward from position m of link_ids
RunGrads(rets, jposes, grads, grad_input, m) ==
    IF m > Len(fk.link_ids) THEN grad_input
    ELSE CHOOSE r \in
           {RunGrads(rets, jposes, grads,
                     Accumulate(g, jposes,
                                link_map[robot.links[fk.link_ids[m] + 1]].angle_ids, t),
                     m + 1) : g \in {grad_input}, t \in {Temp(grads[m], rets[m])}} : TRUE

\* the evaluations that have been called
Started == {e \in Evals : evals[e].kind # "idle"}

(* C16: when forward, Jacobian and backward evaluations on different angle   *)
(* batches are interleaved on one robot and one set of closures, no step of  *)
(* an evaluation changes the robot's links, joints, ids, ancestors or        *)
(* angle_ids or the closures' id lists, a poses list is written only by the  *)
(* evaluation that allocated it, no evaluation fails, and every evaluation   *)
(* returns the poses, Jacobians and gradient that it returns when run alone. *)
EvaluationsIsolated ==
    /\ [](\A e \in Started :
             /\ evals[e].pc # "raised"
             /\ \A d \in Started : d # e => evals[d].obj # evals[e].obj
             /\ evals[e].pc \in {"saved", "returned"} =>
                   \A P \in {RunHelper(InitialPoses, evals[e].angles, 2)} :
                     \A J \in {RunJHelper(P, ZeroColumns, 2)} :
                       /\ evals[e].rets = Rets(P)
                       /\ evals[e].kind = "jimpl" =>
                             evals[e].jacs = [m \in 1..Len(fk.link_ids) |->
                                                LinkJacobian(P, J, fk.link_ids[m])]
                       /\ evals[e].kind = "backward" =>
                             evals[e].grad_input =
                                 RunGrads(Rets(P), J, evals[e].grads,
                                          [c \in 0..(robot.dof - 1) |-> 0], 1))
    /\ [][/\ (pc = "built" /\ fk.made) =>
                /\ link_map' = link_map /\ joint_map' = joint_map
                /\ robot' = robot /\ fk' = fk
          /\ \A o \in Evals :
                heap'[o] # heap[o] =>
                    \E e \in Evals :
                        /\ evals'[e] # evals[e]
                        /\ evals'[e].obj = o
                        /\ \A d \in Started \ {e} : evals[d].obj # o]_vars

\* on a robot with two joint angles the evaluation called second has run its forward
\* and its backward to the end, on another batch, while the evaluation called first
\* is still between two writes of its forward loop
EvaluationsIsolatedWitness ==
    /\ robot.dof = 2
    /\ Started = {1, 2}
    /\ evals[1].pc = "loop" /\ evals[1].i = 3 /\ Len(fk.pose_ids) >= 3
    /\ evals[2].kind = "backward" /\ evals[2].pc = "returned"
    /\ evals[1].angles # evals[2].angles
    /\ heap[evals[1].obj] # heap[evals[2].obj]
    /\ \E c \in DOMAIN evals[2].grad_input : evals[2].grad_input[c] # 0

--------------------------------------------------------------------------
RECURSIVE BuiltPathFrom(_, _)
\* the joints from the root to link l along link.parent and joint.parent, in at most
\* fuel steps
BuiltPathFrom(l, fuel) ==
    IF link_map[l].parent = 0 \/ fuel = 0 THEN <<>>
    ELSE Append(BuiltPathFrom(ParentLink(l), fuel - 1), link_map[l].parent)

(* C21: after the folding pass over any tree, in any order of the link map, *)
(* every joint is in the children of its parent link and of no other link, *)
(* every link whose parent joint is fixed has no child joints, and every   *)
(* fixed joint's parent link is the root or the child of a non-fixed       *)
(* joint; so the path from the root to any link holds at most one fixed    *)
(* joint, and only as its last joint.                                      *)
FoldedFlat ==
    (pc \in {"traverse", "number", "ancestors", "built"} \/ (pc = "fold" /\ loc.i > urdf.n)) =>
        /\ \A j \in DOMAIN joint_map : \A l \in 1..urdf.n :
              (\E k \in DOMAIN link_map[l].children : link_map[l].children[k] = j)
                  <=> joint_map[j].parent = l
        /\ \A l \in 1..urdf.n :
              (link_map[l].parent # 0 /\ IsFixed(joint_map, link_map[l].parent))
                  => link_map[l].children = <<>>
        /\ \A j \in DOMAIN joint_map :
              IsFixed(joint_map, j) =>
                  \/ link_map[joint_map[j].parent].parent = 0
                  \/ ~IsFixed(joint_map, link_map[joint_map[j].parent].parent)
        /\ \A l \in 1..urdf.n :
              \A path \in {BuiltPathFrom(l, urdf.n)} :
                 \A k \in DOMAIN path : IsFixed(joint_map, path[k]) => k = Len(path)

\* a built robot of a tree in which a fixed joint was declared below a fixed joint
\* that has a second child joint, the three now children of one link
FoldedFlatWitness ==
    /\ pc = "built"
    /\ \E f, g, h \in DOMAIN urdf.joints :
          /\ g # h
          /\ UrdfFixed(f) /\ UrdfFixed(g)
          /\ urdf.joints[g].parent = urdf.joints[f].child
          /\ urdf.joints[h].parent = urdf.joints[f].child
          /\ joint_map[g].parent = joint_map[f].parent
          /\ joint_map[h].parent = joint_map[f].parent

--------------------------------------------------------------------------
(* C22: after construction from any tree, the link at index i of           *)
(* robot.links has id i and the joint at index i of robot.joints has id i  *)
(* (indices from 0), every non-root link's id is its parent joint's id     *)
(* plus one, and num_links, the length of robot.links, is num_joints, the  *)
(* length of robot.joints, plus one.                                       *)
IdsAreIndices ==
    Built =>
        /\ \A i \in DOMAIN robot.links : link_map[robot.links[i]].id = i - 1
        /\ \A i \in DOMAIN robot.joints : joint_map[robot.joints[i]].id = i - 1
        /\ \A l \in 1..urdf.n :
              l # Root => link_map[l].id = joint_map[link_map[l].parent].id + 1
        /\ robot.num_links = Len(robot.links)
        /\ robot.num_joints = Len(robot.joints)
        /\ robot.num_links = robot.num_joints + 1

\* a built robot of four links in which a fixed joint declared first was numbered
\* last, after a non-fixed joint declared below it
IdsAreIndicesWitness ==
    /\ Built
    /\ robot.num_links = 4
    /\ \E f, j \in DOMAIN urdf.joints :
          /\ UrdfFixed(f) /\ ~UrdfFixed(j) /\ f = 1
          /\ urdf.joints[j].parent = urdf.joints[f].child
          /\ joint_map[f].id = robot.num_joints - 1
          /\ link_map[urdf.joints[f].child].id = robot.num_links - 1
          /\ joint_map[j].id < joint_map[f].id

--------------------------------------------------------------------------
(* C23: when the Jacobian helper has returned, after its break at the first *)
(* visited link whose parent joint has an id of at least dof or after the  *)
(* last pose id, the column of every visited or unvisited link whose       *)
(* parent joint has an id below dof has been written, and so the column of *)
(* every joint id in the angle_ids of every requested link holds the twist *)
(* of that joint and is not the zero column it started as.                 *)
BreakSkipsNoColumn ==
    (call.kind \in {"jimpl", "backward"} /\ call.pc = "jdone") =>
        /\ \A k \in 2..Len(fk.pose_ids) :
              LET link == robot.links[fk.pose_ids[k] + 1]
                  joint == joint_map[link_map[link].parent]
              IN joint.id < robot.dof =>
                    /\ call.jposes[joint.id] = JointColumn(call.poses, link)
                    /\ call.jposes[joint.id] # Zero6
        /\ \A m \in DOMAIN fk.link_ids :
              \A c \in Range(link_map[robot.links[fk.link_ids[m] + 1]].angle_ids) :
                 /\ call.jposes[c] = JointColumn(call.poses, robot.links[c + 2])
                 /\ call.jposes[c] # Zero6

\* the helper of a Jacobian call has stopped early at a link below a fixed joint, with
\* a link requested by name that hangs below a non-fixed and a fixed joint
BreakSkipsNoColumnWitness ==
    /\ call.kind = "jimpl" /\ call.pc = "jdone"
    /\ call.i <= Len(fk.pose_ids)
    /\ fk.has_names
    /\ \E m \in DOMAIN fk.link_ids :
          LET link == robot.links[fk.link_ids[m] + 1]
          IN /\ link_map[link].parent # 0
             /\ IsFixed(joint_map, link_map[link].parent)
             /\ link_map[link].angle_ids # <<>>

==========================================================================
